---- MODULE Spec2Model ----
(***************************************************************************)
(* Model of the manual division tracker of napari-manual-tracking          *)
(* (src/src/napari_manual_tracking/_manual_tracker.py).                    *)
(*                                                                         *)
(* State: the 4-D label volume (labels.data), the long-format annotation   *)
(* dataframe (label_df, one row per observed label per frame), the         *)
(* per-label parent dataframe (parent_labels) with its pandas index, and   *)
(* the dataframe held by the editable table widget (TableWidget.df).       *)
(* The columns 'cell' and 'area' of label_df are measurement/display       *)
(* columns that no handler reads back; they are left out of the rows.      *)
(***************************************************************************)
EXTENDS Integers, Sequences, FiniteSets, TLC

\* ---------------------------------------------------------------- bounds
NFrames == 2
NVox == 2
MaxLabel == 3
MaxOps == 2

Frames == 0 .. (NFrames - 1)
Voxels == 1 .. NVox
Labels == 0 .. MaxLabel

\* The missing value a left merge / Series.map leaves for an unmatched key.
NaN == -2

\* Values a user can type into a parent cell of the table.
ParentInputs == (-1) .. MaxLabel

VARIABLES data, label_df, parent_labels, table_df, last, nops,
          colormap_selection_index, labels_selected_label, subscribed

vars == <<data, label_df, parent_labels, table_df, last, nops,
          colormap_selection_index, labels_selected_label, subscribed>>

\* ------------------------------------------------------------- helpers
RECURSIVE SortedSeq(_)
SortedSeq(S) ==
    IF S = {} THEN <<>>
    ELSE LET m == CHOOSE x \in S : \A y \in S : x <= y
         IN  <<m>> \o SortedSeq(S \ {m})

Range(s) == {s[i] : i \in 1 .. Len(s)}

LabelsOf(df) == {df[i].label : i \in 1 .. Len(df)}

\* df[df['label'] == l, 'parent'].values[0]
ParentOf(pl, l) ==
    LET m == SelectSeq(pl, LAMBDA p : p.label = l) IN m[1].parent

HasLabel(pl, l) == \E i \in 1 .. Len(pl) : pl[i].label = l

\* skimage.measure.regionprops_table(frame, properties=['label', ...]):
\* one entry per non-zero label of the frame, ascending.
RegionLabels(frame) == SortedSeq({frame[v] : v \in Voxels} \ {0})

\* The rows _on_start builds for one frame when no LabelAnnotations.csv exists.
StartRows(d, t) ==
    LET ls == RegionLabels(d[t])
    IN  [i \in 1 .. Len(ls) |-> [time_point |-> t, label |-> ls[i], parent |-> -1]]

RECURSIVE StartLabelDf(_, _)
StartLabelDf(d, t) ==
    IF t >= NFrames THEN <<>> ELSE StartRows(d, t) \o StartLabelDf(d, t + 1)

\* existing_labels = label_df[['label','parent']].drop_duplicates().sort_values('label')
\* rebuilt with a fresh RangeIndex.
StartParentLabels(df) ==
    LET ls == SortedSeq(LabelsOf(df))
    IN  [i \in 1 .. Len(ls) |-> [idx |-> i - 1, label |-> ls[i], parent |-> -1]]

\* pd.merge(label_df, parent_labels[['label','parent']], on='label', how='left')
\* followed by label_df['parent'] = label_df['parent_new'].
RECURSIVE MergeParents(_, _)
MergeParents(df, pl) ==
    IF df = <<>> THEN <<>>
    ELSE LET r == Head(df)
             m == SelectSeq(pl, LAMBDA p : p.label = r.label)
         IN  (IF m = <<>>
              THEN <<[r EXCEPT !.parent = NaN]>>
              ELSE [i \in 1 .. Len(m) |-> [r EXCEPT !.parent = m[i].parent]])
             \o MergeParents(Tail(df), pl)

\* parent_labels[parent_labels['label'].isin(label_df['label'])]
PruneParentLabels(pl, df) ==
    SelectSeq(pl, LAMBDA p : p.label \in LabelsOf(df))

\* data[range][data[range] == source] = target
Relabel(d, source, target, from) ==
    [t \in Frames |->
        [v \in Voxels |->
            IF t >= from /\ d[t][v] = source THEN target ELSE d[t][v]]]

\* all frames, or the current frame onward
From(all, t) == IF all THEN 0 ELSE t

State(d, df, pl, tdf, res) ==
    [data |-> d, label_df |-> df, parent_labels |-> pl, table_df |-> tdf, res |-> res]

Cur == State(data, label_df, parent_labels, table_df, last.res)

\* ------------------------------------------------------ _convert_label
\* self.parent_labels.loc[len(self.parent_labels.index)] = [target_label, 0]:
\* .loc addresses the index LABEL len(index); a row carrying that index label
\* is overwritten, otherwise a row with that index label is appended.
SetRowAtIndexLabel(pl, key, label, parent) ==
    IF \E i \in 1 .. Len(pl) : pl[i].idx = key
    THEN [i \in 1 .. Len(pl) |->
            IF pl[i].idx = key
            THEN [idx |-> key, label |-> label, parent |-> parent]
            ELSE pl[i]]
    ELSE Append(pl, [idx |-> key, label |-> label, parent |-> parent])

\* Mutant: the mask of the "subsequent frames" branch is used for both buttons.
ConvertZeroRows_FrameMask(df, source, all, time_start) ==
    SelectSeq(df, LAMBDA r : r.label # source /\ r.time_point <= time_start)

\* label_df rows kept when the target label is 0 (lines 363-369).
ConvertZeroRows(df, source, all, time_start) ==
    IF all
    THEN SelectSeq(df, LAMBDA r : r.label # source)
    ELSE SelectSeq(df, LAMBDA r : r.label # source /\ r.time_point <= time_start)

\* Mutant: the rows are renamed at every time point, whatever the range.
ConvertRenameRows_AllFrames(df, source, target, all, time_start) ==
    [i \in 1 .. Len(df) |->
        IF df[i].label = source THEN [df[i] EXCEPT !.label = target] ELSE df[i]]

\* label_df rows renamed when the target label is not 0 (lines 377-382).
ConvertRenameRows(df, source, target, all, time_start) ==
    [i \in 1 .. Len(df) |->
        IF df[i].label = source /\ (all \/ df[i].time_point >= time_start)
        THEN [df[i] EXCEPT !.label = target]
        ELSE df[i]]

\* Mutant: the target row is written without testing whether one exists.
ConvertParentLabels_NoGuard(pl, df, target) ==
    PruneParentLabels(SetRowAtIndexLabel(pl, Len(pl), target, 0), df)

\* parent_labels after a conversion to a non-zero target (lines 384-388).
ConvertParentLabels(pl, df, target) ==
    IF ~HasLabel(pl, target)
    THEN PruneParentLabels(SetRowAtIndexLabel(pl, Len(pl), target, 0), df)
    ELSE pl

ConvertLabel(st, source, target, all, time_start) ==
    LET from == From(all, time_start)
        df1  == MergeParents(st.label_df, st.parent_labels)
        d2   == Relabel(st.data, source, target, from)
    IN  IF target = 0
        THEN LET df2 == ConvertZeroRows(df1, source, all, time_start)
                 pl2 == SelectSeq(st.parent_labels, LAMBDA p : p.label # source)
             IN  State(d2, MergeParents(df2, pl2), pl2, pl2, "done")
        ELSE LET df2 == ConvertRenameRows(df1, source, target, all, time_start)
                 pl2 == ConvertParentLabels(st.parent_labels, df2, target)
                 tdf == IF ~HasLabel(st.parent_labels, target)
                        THEN pl2 ELSE st.table_df
             IN  State(d2, MergeParents(df2, pl2), pl2, tdf, "done")

\* --------------------------------------------------------- _swap_label
\* Mutant: only the first label is looked up.
SwapAccepted_SourceOnly(pl, source, target) == HasLabel(pl, source)

SwapAccepted(pl, source, target) == HasLabel(pl, source) /\ HasLabel(pl, target)

\* mask = (data[range] == source_label)
SwapMask(d, source, from) ==
    {<<t, v>> \in Frames \X Voxels : t >= from /\ d[t][v] = source}

\* data[range][data[range] == target_label] = source_label
SwapFirstHalf(d, source, target, from) == Relabel(d, target, source, from)

\* data[range][mask] = target_label
SwapSecondHalf(mid, mask, target) ==
    [t \in Frames |->
        [v \in Voxels |-> IF <<t, v>> \in mask THEN target ELSE mid[t][v]]]

\* Mutant: two relabels in sequence, the second mask taken after the first write.
SwapData_Sequential(d, source, target, from) ==
    Relabel(Relabel(d, target, source, from), source, target, from)

SwapData(d, source, target, from) ==
    SwapSecondHalf(SwapFirstHalf(d, source, target, from),
                   SwapMask(d, source, from), target)

\* Both row masks are taken before either assignment (lines 429-430, 447-448).
SwapInRange(r, all, time_start) == all \/ r.time_point >= time_start

\* label_df.loc[mask_target, 'label'] = source_label
\* label_df.loc[mask_source, 'label'] = target_label
SwapRowLabels(df, source, target, all, time_start) ==
    [i \in 1 .. Len(df) |->
        IF ~SwapInRange(df[i], all, time_start) THEN df[i]
        ELSE IF df[i].label = source THEN [df[i] EXCEPT !.label = target]
        ELSE IF df[i].label = target THEN [df[i] EXCEPT !.label = source]
        ELSE df[i]]

\* label_df.loc[mask_target, 'parent'] = source_parent
\* label_df.loc[mask_source, 'parent'] = target_parent
\* (df holds the rows before the labels were exchanged)
SwapRowParents(df, swapped, pl, source, target, all, time_start) ==
    [i \in 1 .. Len(df) |->
        IF ~SwapInRange(df[i], all, time_start) THEN swapped[i]
        ELSE IF df[i].label = source
        THEN [swapped[i] EXCEPT !.parent = ParentOf(pl, target)]
        ELSE IF df[i].label = target
        THEN [swapped[i] EXCEPT !.parent = ParentOf(pl, source)]
        ELSE swapped[i]]

\* print / warnings.warn / return (lines 411-413)
SwapRejected(st) == [st EXCEPT !.res = "rejected"]

SwapLabel(st, source, target, all, time_start) ==
    IF ~SwapAccepted(st.parent_labels, source, target)
    THEN SwapRejected(st)
    ELSE LET from == From(all, time_start)
             df1  == MergeParents(st.label_df, st.parent_labels)
             d2   == SwapData(st.data, source, target, from)
             df2  == SwapRowLabels(df1, source, target, all, time_start)
         IN  IF ~HasLabel(st.parent_labels, source) \/ ~HasLabel(st.parent_labels, target)
             THEN \* .values[0] on an empty selection raises IndexError
                  \* (lines 436-437, 454-455), after the array and the
                  \* label column were written
                  State(d2, df2, st.parent_labels, st.table_df, "failed")
             ELSE LET df3 == SwapRowParents(df1, df2, st.parent_labels,
                                            source, target, all, time_start)
                      pl2 == PruneParentLabels(st.parent_labels, df3)
                  IN  State(d2, df3, pl2, pl2, "done")

\* ------------------------------------------------------ _update_labels
\* EnsureLabel without the elif branch of lines 502-504.
EnsureLabel_AppendOnly(pl, label) ==
    IF ~HasLabel(pl, label)
    THEN LET c == Append(pl, [idx |-> 0, label |-> label, parent |-> 0])
         IN  [i \in 1 .. Len(c) |-> [c[i] EXCEPT !.idx = i - 1]]
    ELSE pl

\* Lines 494-504: the selected label gets a row, or its -1 becomes 0.
\* pd.concat(..., ignore_index=True) builds a new frame with a RangeIndex;
\* the .loc assignment of the elif branch writes into the existing frame.
EnsureLabel(pl, label) ==
    IF ~HasLabel(pl, label)
    THEN LET c == Append(pl, [idx |-> 0, label |-> label, parent |-> 0])
         IN  [i \in 1 .. Len(c) |-> [c[i] EXCEPT !.idx = i - 1]]
    ELSE IF ParentOf(pl, label) = -1
    THEN [i \in 1 .. Len(pl) |->
            IF pl[i].label = label THEN [pl[i] EXCEPT !.parent = 0] ELSE pl[i]]
    ELSE pl

\* label_df.loc[label_df['label'] == label, 'parent'] = parent_value
SetParentOfLabel(df, label, parent_value) ==
    [i \in 1 .. Len(df) |->
        IF df[i].label = label THEN [df[i] EXCEPT !.parent = parent_value] ELSE df[i]]

\* labels = np.unique(area_df[area_df['label'] > 1]['label'])
FrameLabels(d, time_point) ==
    SelectSeq(RegionLabels(d[time_point]), LAMBDA l : l > 1)

\* The rows of the current time point (lines 511-518).
FrameRows(d, pl, time_point) ==
    LET ls == FrameLabels(d, time_point)
    IN  [i \in 1 .. Len(ls) |->
            [time_point |-> time_point, label |-> ls[i], parent |-> ParentOf(pl, ls[i])]]

UpdateLabels(st, time_point, label) ==
    LET pl1  == IF label # 1 THEN EnsureLabel(st.parent_labels, label)
                ELSE st.parent_labels
        \* the table widget holds the frame that parent_labels named before
        \* this call; it sees the in-place write, not the concatenated frame
        tdf1 == IF st.table_df = st.parent_labels /\ HasLabel(st.parent_labels, label)
                THEN pl1 ELSE st.table_df
        df1  == IF label # 1
                THEN SetParentOfLabel(st.label_df, label, ParentOf(pl1, label))
                ELSE st.label_df
    IN  IF \E l \in Range(FrameLabels(st.data, time_point)) : ~HasLabel(pl1, l)
        THEN \* .values[0] on an empty selection raises IndexError (line 515)
             State(st.data, df1, pl1, tdf1, "failed")
        ELSE LET df2 == SelectSeq(df1, LAMBDA r : r.time_point # time_point)
                        \o FrameRows(st.data, pl1, time_point)
                 pl2 == PruneParentLabels(pl1, df2)
             IN  State(st.data, df2, pl2, pl2, "done")

\* A paint or fill event: the viewer writes the selected label into the
\* current frame and labels_updated calls _update_labels (lines 609-614).
PaintLabel(st, time_point, voxel, label) ==
    UpdateLabels([st EXCEPT !.data[time_point][voxel] = label], time_point, label)

\* ------------------------- table_cell_changed / _update_parent_labels
UniqueLabels(pl) ==
    \A i, j \in 1 .. Len(pl) : pl[i].label = pl[j].label => i = j

\* label_df['parent'] = label_df['label'].map(parent_labels.set_index('label')['parent'])
MapParents(df, pl) ==
    [i \in 1 .. Len(df) |->
        [df[i] EXCEPT !.parent =
            IF HasLabel(pl, df[i].label) THEN ParentOf(pl, df[i].label) ELSE NaN]]

\* numeric = FALSE: int(new_value) raises ValueError and the cell keeps its
\* value in the dataframe; table_changed is emitted in both cases.
EditParent(st, row, numeric, value) ==
    LET tdf == IF numeric THEN [st.table_df EXCEPT ![row].parent = value]
               ELSE st.table_df
    IN  IF UniqueLabels(tdf)
        THEN State(st.data, MapParents(st.label_df, tdf), tdf, tdf, "done")
        ELSE \* Series.map on a non-unique index raises
             State(st.data, st.label_df, tdf, tdf, "failed")

\* ------------------------------------ _determine_label_plot_order
\* list(parent_labels.loc[parent_labels['parent'] == l, 'label']); a missing
\* value equals nothing, itself included.
Children(pl, l) ==
    LET m == SelectSeq(pl, LAMBDA p : p.parent = l /\ l # NaN)
    IN  [i \in 1 .. Len(m) |-> m[i].label]

\* list.index(x): 0-based position of the first occurrence of x.
IndexOf(s, x) == (CHOOSE i \in 1 .. Len(s) : s[i] = x /\ \A j \in 1 .. (i - 1) : s[j] # x) - 1

\* InsertAt that writes over the element at position k.
InsertAt_Overwrite(s, k, x) ==
    IF k >= Len(s) THEN Append(s, x)
    ELSE [s EXCEPT ![k + 1] = x]

\* list.insert(k, x) with 0 <= k: positions past the end append.
InsertAt(s, k, x) ==
    IF k >= Len(s) THEN Append(s, x)
    ELSE SubSeq(s, 1, k) \o <<x>> \o SubSeq(s, k + 1, Len(s))

\* for i, c in enumerate(children): y_axis_order.insert(y_axis_order.index(l) + i, c)
RECURSIVE InsertChildren(_, _, _, _)
InsertChildren(order, l, children, i) ==
    IF i >= Len(children) THEN order
    ELSE InsertChildren(InsertAt(order, IndexOf(order, l) + i, children[i + 1]),
                        l, children, i + 1)

\* One pass of the while loop: for l in starting_points.
RECURSIVE PlotLevel(_, _, _, _)
PlotLevel(pl, starting_points, order, children_list) ==
    IF starting_points = <<>>
    THEN [order |-> order, children_list |-> children_list]
    ELSE LET l == Head(starting_points)
             children == Children(pl, l)
         IN  PlotLevel(pl, Tail(starting_points),
                       InsertChildren(order, l, children, 0),
                       children_list \o children)

\* The while loop, cut after levels passes. The frontier of a pass is a
\* function of the previous frontier alone; a frontier that is still not
\* empty after more passes than the table has rows has walked a path that
\* repeats a row, and the loop never ends.
RECURSIVE PlotLoop(_, _, _, _)
PlotLoop(pl, starting_points, order, levels) ==
    IF starting_points = <<>> THEN [ended |-> TRUE, order |-> order]
    ELSE IF levels = 0 THEN [ended |-> FALSE, order |-> order]
    ELSE LET r == PlotLevel(pl, starting_points, order, <<>>)
         IN  PlotLoop(pl, r.children_list, r.order, levels - 1)

determine_label_plot_order(pl, starting_points) ==
    PlotLoop(pl, starting_points, starting_points, Len(pl) + 1)

\* ----------------------------------------------------- _get_lineage
\* The while loop of lines 673-678, cut after steps passes. The loop state
\* is the value of parent alone; a walk longer than the table has rows has
\* repeated a row, and the loop never ends. The result is the root found,
\* "raises" for the IndexError of .iloc[0] on an empty selection, or
\* "diverges".
RECURSIVE FindRoot(_, _, _)
FindRoot(pl, parent, steps) ==
    IF parent <= 0 THEN [outcome |-> "root", root |-> parent]
    ELSE IF ~HasLabel(pl, parent) THEN [outcome |-> "raises", root |-> parent]
    ELSE IF ParentOf(pl, parent) \in {0, -1} THEN [outcome |-> "root", root |-> parent]
    ELSE IF steps = 0 THEN [outcome |-> "diverges", root |-> parent]
    ELSE FindRoot(pl, ParentOf(pl, parent), steps - 1)

LineageResult(outcome, order) == [outcome |-> outcome, order |-> order]

PlotOrderFrom(pl, starting_points) ==
    LET r == determine_label_plot_order(pl, starting_points)
    IN  LineageResult(IF r.ended THEN "order" ELSE "diverges", r.order)

\* Lines 661-681, shared by _get_lineage and by mode 'lineage' of
\* PlotWidget._get_lineage_data (lines 161-185 of utilities/_plot_widget.py).
LineageOf(pl, selected_label) ==
    IF ~HasLabel(pl, selected_label) THEN LineageResult("order", <<>>)
    ELSE LET parent == ParentOf(pl, selected_label) IN
         IF parent = -1 THEN LineageResult("order", <<>>)
         ELSE IF parent = 0 THEN PlotOrderFrom(pl, <<selected_label>>)
         ELSE LET up == FindRoot(pl, parent, Len(pl) + 1) IN
              IF up.outcome = "root" THEN PlotOrderFrom(pl, <<up.root>>)
              ELSE LineageResult(up.outcome, <<>>)

get_lineage(pl, selected_label) ==
    IF selected_label \in {0, 1} THEN LineageResult("order", <<>>)
    ELSE LineageOf(pl, selected_label)

\* ------------------------------------- PlotWidget._get_lineage_data
\* props[['label', 'parent']].copy().drop_duplicates(): the first occurrence
\* of every (label, parent) pair, in row order.
RECURSIVE DropDuplicates(_, _)
DropDuplicates(df, seen) ==
    IF df = <<>> THEN <<>>
    ELSE LET r == [label |-> Head(df).label, parent |-> Head(df).parent]
         IN  IF r \in seen THEN DropDuplicates(Tail(df), seen)
             ELSE <<r>> \o DropDuplicates(Tail(df), seen \cup {r})

PlotParentLabels(props) == DropDuplicates(props, {})

\* mode == 'lineage': the y_axis_order for labels.selected_label; there is
\* no test for the labels 0 and 1 here.
lineage_data_order(props, selected_label) ==
    LineageOf(PlotParentLabels(props), selected_label)

\* mode == 'tracked' (utilities/_plot_widget.py lines 156-159): the order
\* grown from the labels with parent 0.
tracked_data_order(props) ==
    LET pl == PlotParentLabels(props)
        m  == SelectSeq(pl, LAMBDA p : p.parent = 0)
    IN  PlotOrderFrom(pl, [i \in 1 .. Len(m) |-> m[i].label])

\* ---------------------------------------------------- _update_cmap
\* "Tracked": parent_labels.loc[parent_labels['parent'] != -1, 'label']
TrackedSelection(pl) == {pl[i].label : i \in {j \in 1 .. Len(pl) : pl[j].parent # -1}}

\* "Non-connected cells": parent_labels.loc[parent_labels['parent'] == -1, 'label']
LooseSelection(pl) == {pl[i].label : i \in {j \in 1 .. Len(pl) : pl[j].parent = -1}}

\* self.colormap_options (line 124), indexed by colormap_selection_index.
colormap_options == <<"All", "Tracked", "Lineage", "Non-connected cells">>

Mode(index) == colormap_options[index + 1]

\* _update_cmap (lines 637-654) for the given mode index and selected label:
\* how the call ends and whether _update_cmap is connected to the
\* selected_label event where it ends. Line 640 disconnects first; line 654
\* connects again in mode 'Lineage', and is reached only if _get_lineage
\* returned. Disconnecting a callback that is not connected, and connecting
\* one that is, change nothing.
update_cmap(index, pl, selected) ==
    IF Mode(index) = "Lineage"
    THEN LET r == get_lineage(pl, selected)
         IN  IF r.outcome = "order" THEN [res |-> "done", subscribed |-> TRUE]
             ELSE IF r.outcome = "raises" THEN [res |-> "failed", subscribed |-> FALSE]
             ELSE [res |-> "diverges", subscribed |-> FALSE]
    ELSE [res |-> "done", subscribed |-> FALSE]

\* The selected_label event of the labels layer for a new value: the
\* connected callback, if any, runs with the new selection.
selected_label_event(is_subscribed, index, pl, selected) ==
    IF is_subscribed THEN update_cmap(index, pl, selected)
    ELSE [res |-> "done", subscribed |-> FALSE]

\* ------------------------------------- order of the steps of a handler
\* The statements of a handler in program order, each named by what it
\* writes: the volume, label_df ("annotation"), parent_labels ("lineage"),
\* a prune or merge between the two tables ("reconcile"), or a consumer
\* ("refresh": _populate_table, _update_plot).
Step(kind, what) == [kind |-> kind, what |-> what]

\* _convert_label, lines 357-397.
convert_label_steps(pl, target) ==
    <<Step("reconcile", "merge"), Step("volume", "relabel"),
      Step("annotation", "rows of source")>>
    \o (IF target = 0
        THEN <<Step("lineage", "remove source"), Step("refresh", "table")>>
        ELSE IF ~HasLabel(pl, target)
        THEN <<Step("lineage", "append target"), Step("reconcile", "prune"),
               Step("refresh", "table")>>
        ELSE <<>>)
    \o <<Step("reconcile", "merge"), Step("refresh", "plot")>>

\* _swap_label after the guard of line 410, lines 415-466.
swap_label_steps ==
    <<Step("reconcile", "merge"), Step("volume", "exchange"),
      Step("annotation", "labels"), Step("annotation", "parents"),
      Step("reconcile", "prune"), Step("refresh", "table"),
      Step("refresh", "plot")>>

\* The viewer's write of the painted voxels, then _update_labels, lines 494-526.
update_labels_steps(label) ==
    <<Step("volume", "paint")>>
    \o (IF label # 1
        THEN <<Step("lineage", "row of label"), Step("annotation", "parent of label")>>
        ELSE <<>>)
    \o <<Step("annotation", "rows of frame"), Step("refresh", "plot"),
         Step("reconcile", "prune"), Step("refresh", "table")>>

\* ------------------------------------------------------------ _save
\* parent_labels['parent'].astype(int) raises on a missing value.
SaveRaises(pl) == \E i \in 1 .. Len(pl) : pl[i].parent = NaN

\* result['parent'].fillna(-1)
FillNa(df) ==
    [i \in 1 .. Len(df) |->
        [df[i] EXCEPT !.parent = IF df[i].parent = NaN THEN -1 ELSE df[i].parent]]

\* The rows written to LabelAnnotations.csv: label_df without its parent
\* column, left-merged with parent_labels on 'label', missing parents as -1.
SavedRows(df, pl) == FillNa(MergeParents(df, pl))

\* ------------------------- _on_start with a LabelAnnotations.csv present
\* sort_values(by='label') of the distinct (label, parent) pairs; pairs of
\* one label keep their order of appearance.
RECURSIVE SortByLabel(_)
SortByLabel(rows) ==
    IF rows = <<>> THEN <<>>
    ELSE LET m == CHOOSE l \in LabelsOf(rows) : \A k \in LabelsOf(rows) : l <= k
         IN  SelectSeq(rows, LAMBDA r : r.label = m)
             \o SortByLabel(SelectSeq(rows, LAMBDA r : r.label # m))

\* LoadedParentLabels without drop_duplicates: one row per saved row.
LoadedParentLabels_NoDedup(csv) ==
    LET rows == SortByLabel(csv)
    IN  [i \in 1 .. Len(rows) |->
            [idx |-> i - 1, label |-> rows[i].label, parent |-> rows[i].parent]]

\* existing_labels of lines 598-601, with the RangeIndex of a new DataFrame.
LoadedParentLabels(csv) ==
    LET rows == SortByLabel(DropDuplicates(csv, {}))
    IN  [i \in 1 .. Len(rows) |->
            [idx |-> i - 1, label |-> rows[i].label, parent |-> rows[i].parent]]

\* The session after the stop button (_save) and the start button (_on_start
\* reading the stack and the csv that were just written).
SaveAndStart(st) ==
    LET csv == SavedRows(st.label_df, st.parent_labels)
        pl  == LoadedParentLabels(csv)
    IN  State(st.data, csv, pl, pl, IF SaveRaises(st.parent_labels) THEN "failed" ELSE "done")

\* ------------------------------------------------------- specification
\* last records the handler that ran last, its inputs, how it ended, and
\* hit: whether its first label occurred in the addressed frames (convert,
\* swap), the painted voxel changed (paint), the cell value changed (edit).
Op(name, a, b, all, t, hit, res) ==
    [op |-> name, a |-> a, b |-> b, all |-> all, t |-> t, hit |-> hit, res |-> res]

Occurs(d, l, from) == \E t \in Frames, v \in Voxels : t >= from /\ d[t][v] = l

\* The tables and the volume after a handler call that ended in state st.
Record(st, name, a, b, all, t, hit) ==
    /\ nops' = nops + 1
    /\ data' = st.data
    /\ label_df' = st.label_df
    /\ parent_labels' = st.parent_labels
    /\ table_df' = st.table_df
    /\ last' = Op(name, a, b, all, t, hit, st.res)

\* A handler call that does not touch the display mode or the selection.
Apply(st, name, a, b, all, t, hit) ==
    /\ Record(st, name, a, b, all, t, hit)
    /\ UNCHANGED <<colormap_selection_index, labels_selected_label, subscribed>>

\* The label stacks loaded at start: every cell is one voxel wide and keeps
\* its place over the frames; background and the reserved label 1 are
\* included. Every handler reads a frame only through equality masks and
\* regionprops, so the stacks are taken up to the order of the voxels.
StartVolumes ==
    {[t \in Frames |-> cells] : cells \in
        {c \in [Voxels -> Labels] :
            \A v, w \in Voxels :
                v < w => (c[w] = 0 \/ (c[v] # 0 /\ c[v] < c[w]))}}

\* _on_start without a LabelAnnotations.csv in the label directory.
Init ==
    /\ data \in StartVolumes
    /\ label_df = StartLabelDf(data, 0)
    /\ parent_labels = StartParentLabels(label_df)
    /\ table_df = parent_labels
    /\ last = Op("start", 0, 0, FALSE, 0, FALSE, "done")
    /\ nops = 0
    /\ colormap_selection_index = 0
    /\ labels_selected_label = 1
    /\ subscribed = FALSE

\* budget: the number of handler calls of a session.
\* The current frame is read by both buttons but used only by the
\* "subsequent frames" one, so it is fixed to 0 when all is TRUE.
Convert(budget) ==
    \E source \in Labels, target \in Labels, all \in BOOLEAN, t \in Frames :
        /\ nops < budget
        /\ all => t = 0
        /\ Apply(ConvertLabel(Cur, source, target, all, t),
                 "convert", source, target, all, t, Occurs(data, source, From(all, t)))

Swap(budget) ==
    \E source \in Labels, target \in Labels, all \in BOOLEAN, t \in Frames :
        /\ nops < budget
        /\ all => t = 0
        /\ Apply(SwapLabel(Cur, source, target, all, t),
                 "swap", source, target, all, t, Occurs(data, source, From(all, t)))

\* The label painted is the selected label of the layer (line 612): the
\* user selects it, if it is not selected yet, and paints.
Paint(budget) ==
    \E t \in Frames, v \in Voxels, label \in Labels :
        /\ nops < budget
        /\ Record(PaintLabel(Cur, t, v, label),
                  "paint", v, label, FALSE, t, data[t][v] # label)
        /\ labels_selected_label' = label
        /\ subscribed' =
              IF label = labels_selected_label THEN subscribed
              ELSE selected_label_event(subscribed, colormap_selection_index,
                                        parent_labels, label).subscribed
        /\ UNCHANGED colormap_selection_index

Edit(budget) ==
    \E row \in 1 .. Len(table_df), numeric \in BOOLEAN, value \in ParentInputs :
        /\ nops < budget
        /\ ~numeric => value = 0
        /\ Apply(EditParent(Cur, row, numeric, value),
                 "edit", row, value, numeric, 0,
                 numeric /\ table_df[row].parent # value)

\* Sessions of up to MaxOps handler calls.
Next == Convert(MaxOps) \/ Swap(MaxOps) \/ Paint(MaxOps) \/ Edit(MaxOps)

Spec == Init /\ [][Next]_vars

\* Sessions one handler call shorter: the claims about the effect of a single
\* handler call are settled on these.
NextStep ==
    \/ Convert(MaxOps - 1)
    \/ Swap(MaxOps - 1)
    \/ Paint(MaxOps - 1)
    \/ Edit(MaxOps - 1)

SpecStep == Init /\ [][NextStep]_vars

\* Key 'a' (lines 624-635). An exception of _update_cmap leaves the handler
\* at line 630; a lineage computation that never ends leaves it there for
\* good.
CycleLabelSelection ==
    LET index == (colormap_selection_index + 1) % Len(colormap_options)
        r     == update_cmap(index, parent_labels, labels_selected_label)
    IN  /\ colormap_selection_index' = index
        /\ subscribed' = IF r.res = "done" THEN Mode(index) = "Lineage"
                         ELSE r.subscribed
        /\ last' = Op("cycle", index, labels_selected_label, FALSE, 0, FALSE, r.res)
        /\ UNCHANGED <<data, label_df, parent_labels, table_df, nops, labels_selected_label>>

\* The user selects another label (a click in the table, the label spin box).
SelectLabel ==
    \E s \in Labels :
        /\ s # labels_selected_label
        /\ labels_selected_label' = s
        /\ LET r == selected_label_event(subscribed, colormap_selection_index,
                                         parent_labels, s)
           IN  /\ subscribed' = r.subscribed
               /\ last' = Op("select", s, 0, FALSE, 0, subscribed, r.res)
        /\ UNCHANGED <<data, label_df, parent_labels, table_df, nops,
                       colormap_selection_index>>

\* Sessions of parent edits, mode changes and label selections.
NextDisplay == Edit(MaxOps - 1) \/ CycleLabelSelection \/ SelectLabel

SpecDisplay == Init /\ [][NextDisplay]_vars

\* Sessions of parent edits alone: the parent tables a user can type.
NextTable == Edit(MaxOps)

SpecTable == Init /\ [][NextTable]_vars

\* ================================================================ claims
EditOps == {"convert", "swap", "paint"}
MutatingOps == EditOps \cup {"edit"}

Completed(ops) == last.op \in ops /\ last.res = "done"

RowsAt(df, t) == {df[i].label : i \in {j \in 1 .. Len(df) : df[j].time_point = t}}

VolumeLabelsAt(d, t) == {d[t][v] : v \in Voxels}

\* Following parent pointers from label l for at most n steps ends at 0 or
\* -1; a parent without a row of its own ends the walk as well.
RECURSIVE ChainEnds(_, _, _)
ChainEnds(pl, l, n) ==
    LET p == ParentOf(pl, l)
    IN  IF p <= 0 \/ ~HasLabel(pl, p) THEN TRUE
        ELSE IF n = 0 THEN FALSE
        ELSE ChainEnds(pl, p, n - 1)

\* C1: in every reachable state the parent pointers of parent_labels form a
\* forest: from every label with parent > 0 the parent chain ends within as
\* many steps as there are distinct labels, so no label is its own parent
\* or ancestor.
C1_ForestInvariant ==
    \A l \in {x \in LabelsOf(parent_labels) : x > 1} :
        ChainEnds(parent_labels, l, Cardinality(LabelsOf(parent_labels)))

\* C2: after every completed convert, swap, paint update or parent edit,
\* each label_df row carries the parent that parent_labels records for the
\* row's label (a convert or swap being one of a label greater than 1).
C2_ParentsMatch ==
    Completed(MutatingOps) /\ (last.op \in {"convert", "swap"} => last.a > 1) =>
        \A i \in 1 .. Len(label_df) :
            /\ HasLabel(parent_labels, label_df[i].label)
            /\ label_df[i].parent = ParentOf(parent_labels, label_df[i].label)

\* C3: after every completed convert, swap or paint update, the labels
\* greater than 1 of the volume at frame t are the labels of the label_df
\* rows of time point t (rows of the reserved label 1, which _on_start
\* measures too, are left out of the comparison; a convert or swap is one of
\* a label greater than 1).
C3_VolumeMatchesRows ==
    Completed(EditOps) /\ (last.op = "paint" \/ last.a > 1) =>
        \A t \in Frames :
            {l \in VolumeLabelsAt(data, t) : l > 1}
                = {l \in RowsAt(label_df, t) : l > 1}

\* The (label, parent) content of parent_labels, without the pandas index.
Lineage(pl) == [i \in 1 .. Len(pl) |-> [label |-> pl[i].label, parent |-> pl[i].parent]]

SwapTwice(st, a, b) == SwapLabel(SwapLabel(st, a, b, TRUE, 0), a, b, TRUE, 0)

\* C4: wherever swap(a, b, all frames) is accepted, doing it twice in a row
\* gives back the volume, label_df and parent_labels of before the first swap.
C4_SwapRoundTrip ==
    \A a \in Labels, b \in Labels :
        a > 1 /\ b > 1 /\ a # b /\ SwapAccepted(parent_labels, a, b) =>
            LET st == SwapTwice(Cur, a, b)
            IN  /\ st.data = data
                /\ st.label_df = label_df
                /\ Lineage(st.parent_labels) = Lineage(parent_labels)

\* Reconciliation as _convert_label runs it after an edit (lines 384-393):
\* parent_labels is cut down to the labels of label_df, and every label_df
\* parent is overwritten by the left merge with parent_labels.
Reconcile(st) ==
    LET pl == PruneParentLabels(st.parent_labels, st.label_df)
    IN  [st EXCEPT !.parent_labels = pl,
                   !.label_df = MergeParents(st.label_df, pl)]

\* C5: reconciliation is idempotent: run twice in a row it leaves the same
\* label_df and parent_labels as run once, in every reachable state.
C5_ReconcileIdempotent ==
    LET once  == Reconcile(Cur)
        twice == Reconcile(once)
    IN  /\ twice.label_df = once.label_df
        /\ twice.parent_labels = once.parent_labels

\* A conversion has completed and left a parent_labels row that
\* reconciliation removes.
C5_Witness ==
    /\ Completed({"convert"})
    /\ last.hit
    /\ Len(label_df) > 0
    /\ Reconcile(Cur).parent_labels # parent_labels

\* The (time_point, label) columns of label_df.
Keys(df) ==
    [i \in 1 .. Len(df) |-> [time_point |-> df[i].time_point, label |-> df[i].label]]

\* C6: converting label L to 0 for all frames leaves no voxel, no label_df
\* row and no parent_labels row with label L, and the time_point and label
\* of the rows of every other label are as before.
C6_ConvertToZeroRemoves ==
    [][(last'.op = "convert" /\ last'.b = 0 /\ last'.all /\ last'.a >= 1) =>
        LET L == last'.a
        IN  /\ ~Occurs(data', L, 0)
            /\ L \notin LabelsOf(label_df')
            /\ L \notin LabelsOf(parent_labels')
            /\ Keys(label_df') = SelectSeq(Keys(label_df), LAMBDA r : r.label # L)
            /\ \A t \in Frames, v \in Voxels :
                  data[t][v] # L => data'[t][v] = data[t][v]]_vars

\* Label L > 1 occurred in the volume and was converted to 0 for all frames
\* while rows of another label remain.
C6_Witness ==
    /\ Completed({"convert"})
    /\ last.b = 0 /\ last.all /\ last.a > 1 /\ last.hit
    /\ \E i \in 1 .. Len(label_df) : label_df[i].label > 1

\* C7: converting source to a non-zero target from frame T onward keeps
\* every voxel and every row label before T, turns each voxel and each row
\* (t, source) with t >= T into target, and leaves other labels alone.
C7_ConvertFromFrame ==
    [][(last'.op = "convert" /\ last'.b # 0 /\ ~last'.all) =>
        LET source == last'.a
            target == last'.b
            T      == last'.t
        IN  /\ \A t \in Frames, v \in Voxels :
                  data'[t][v] = IF t >= T /\ data[t][v] = source
                                THEN target ELSE data[t][v]
            /\ Len(label_df') = Len(label_df)
            /\ \A i \in 1 .. Len(label_df) :
                  /\ label_df'[i].time_point = label_df[i].time_point
                  /\ label_df'[i].label =
                        IF label_df[i].time_point >= T /\ label_df[i].label = source
                        THEN target ELSE label_df[i].label]_vars

\* Label a > 1 was converted to b from frame 1 onward: frame 0 still holds a
\* and its row, frame 1 holds b and its row.
C7_Witness ==
    /\ Completed({"convert"})
    /\ last.b > 1 /\ last.a > 1 /\ last.a # last.b /\ ~last.all /\ last.t = 1 /\ last.hit
    /\ Occurs(data, last.a, 0) /\ Occurs(data, last.b, 1)
    /\ \E i \in 1 .. Len(label_df) :
          label_df[i].time_point = 0 /\ label_df[i].label = last.a
    /\ \E i \in 1 .. Len(label_df) :
          label_df[i].time_point = 1 /\ label_df[i].label = last.b

\* C8: an accepted swap(a, b, range) exchanges a and b in the voxels of the
\* range and changes no other voxel; a voxel the first assignment wrote keeps
\* the value that assignment gave it.
C8_SwapIsExchange ==
    [][(last'.op = "swap" /\ last'.res = "done") =>
        LET a    == last'.a
            b    == last'.b
            from == From(last'.all, last'.t)
            mid  == SwapFirstHalf(data, a, b, from)
        IN  /\ \A t \in Frames, v \in Voxels :
                  data'[t][v] = IF t >= from /\ data[t][v] = a THEN b
                                ELSE IF t >= from /\ data[t][v] = b THEN a
                                ELSE data[t][v]
            /\ \A t \in Frames, v \in Voxels :
                  (t >= from /\ data[t][v] = b) => data'[t][v] = mid[t][v]]_vars

\* Two different labels > 1 that both occurred in the range were swapped.
C8_Witness ==
    /\ Completed({"swap"})
    /\ last.a > 1 /\ last.b > 1 /\ last.a # last.b /\ last.hit
    /\ Occurs(data, last.a, From(last.all, last.t))
    /\ Occurs(data, last.b, From(last.all, last.t))

\* C9: a swap whose first or second label has no parent_labels row is
\* rejected and leaves the volume, label_df and parent_labels as they were.
C9_SwapRejected ==
    [][(last'.op = "swap"
           /\ (~HasLabel(parent_labels, last'.a) \/ ~HasLabel(parent_labels, last'.b))) =>
        /\ last'.res = "rejected"
        /\ data' = data
        /\ label_df' = label_df
        /\ parent_labels' = parent_labels]_vars

\* A swap of a label that occurs in the volume with a label > 1 that has no
\* parent_labels row was rejected.
C9_Witness ==
    /\ last.op = "swap" /\ last.res = "rejected"
    /\ last.hit /\ last.a > 1 /\ last.b > 1
    /\ ~HasLabel(parent_labels, last.b)
    /\ Len(label_df) > 0

\* C10: a convert whose source label has no parent_labels row is aborted and
\* leaves the volume, label_df and parent_labels as they were.
C10_ConvertAborted ==
    [][(last'.op = "convert" /\ last'.a > 1 /\ ~HasLabel(parent_labels, last'.a)) =>
        /\ data' = data
        /\ label_df' = label_df
        /\ Lineage(parent_labels') = Lineage(parent_labels)]_vars

\* The parent column of the edited table after value is typed into row.
WithParent(pl, row, value) == [pl EXCEPT ![row].parent = value]

\* value as the parent of the label of row makes that label its own parent
\* or its own ancestor.
ClosesCycle(pl, row, value) ==
    \/ value = pl[row].label
    \/ /\ value > 1
       /\ UniqueLabels(pl)
       /\ ~ChainEnds(WithParent(pl, row, value), pl[row].label,
                     Cardinality(LabelsOf(pl)))

\* C11: a parent-cell edit that sets the parent of a label (> 1) to the
\* label itself, or to a value that closes a cycle in the parent relation,
\* is refused: parent_labels keeps the previous parent of that label.
C11_InvalidParentRefused ==
    [][(/\ last'.op = "edit"
        /\ last'.all
        /\ last'.a \in 1 .. Len(table_df)
        /\ table_df[last'.a].label > 1
        /\ ClosesCycle(table_df, last'.a, last'.b))
       => /\ HasLabel(parent_labels', table_df[last'.a].label)
          /\ ParentOf(parent_labels', table_df[last'.a].label)
                = table_df[last'.a].parent]_vars

\* parent_labels holds one row per label and its parent pointers form a forest.
IsForest(pl) ==
    /\ UniqueLabels(pl)
    /\ \A l \in LabelsOf(pl) : ChainEnds(pl, l, Cardinality(LabelsOf(pl)))

\* p is reached from x by following parent pointers (at most n of them).
RECURSIVE IsDescendant(_, _, _, _)
IsDescendant(pl, x, p, n) ==
    /\ n > 0
    /\ HasLabel(pl, x)
    /\ \/ ParentOf(pl, x) = p
       \/ IsDescendant(pl, ParentOf(pl, x), p, n - 1)

\* In the sequence order, the parent of every non-root label (> 1) stands before
\* the label, and only descendants of the parent stand between the two.
ParentsFirst(pl, roots, order) ==
    \A i \in 1 .. Len(order) :
        LET c == order[i] IN
        (c > 1 /\ c \notin Range(roots) /\ HasLabel(pl, c)
            /\ ParentOf(pl, c) \in Range(order))
        => LET k == IndexOf(order, ParentOf(pl, c)) + 1
           IN  /\ k < i
               /\ \A j \in (k + 1) .. (i - 1) :
                      IsDescendant(pl, order[j], ParentOf(pl, c), Len(pl))

TrackedLabels(pl) == {l \in LabelsOf(pl) : l > 1}

\* C12: whenever parent_labels is a forest, the order the tree layout computes
\* from a root (a label with parent 0) places every parent before each of its
\* children, with nothing but descendants of the parent in between.
C12_TreeOrder ==
    IsForest(parent_labels) =>
        \A r \in {l \in TrackedLabels(parent_labels) : ParentOf(parent_labels, l) = 0} :
            ParentsFirst(parent_labels, <<r>>,
                         determine_label_plot_order(parent_labels, <<r>>).order)

\* C13: in every reachable state, cyclic parent tables included, computing
\* the lineage of any selected label comes to an end: neither the upward walk
\* to the root nor the downward expansion runs forever.
C13_LineageTerminates ==
    \A selected \in Labels :
        get_lineage(parent_labels, selected).outcome # "diverges"

\* Every parent is -1, 0 or a label with a row, one row per label, no cycle.
ValidTable(pl) ==
    /\ IsForest(pl)
    /\ \A i \in 1 .. Len(pl) :
           pl[i].parent \in {-1, 0} \/ (pl[i].parent > 0 /\ HasLabel(pl, pl[i].parent))

\* The first label on the parent chain of s whose own parent is 0 or -1.
RECURSIVE RootAncestor(_, _, _)
RootAncestor(pl, s, n) ==
    IF ParentOf(pl, s) \in {0, -1} \/ n = 0 THEN s
    ELSE RootAncestor(pl, ParentOf(pl, s), n - 1)

Descendants(pl, r) == {x \in LabelsOf(pl) : IsDescendant(pl, x, r, Len(pl))}

ExpectedLineage(pl, s) ==
    IF s \in {0, 1} \/ ~HasLabel(pl, s) THEN {}
    ELSE IF ParentOf(pl, s) = -1 THEN {}
    ELSE LET r == RootAncestor(pl, s, Len(pl)) IN {r} \cup Descendants(pl, r)

LineageIs(result, expected) ==
    result.outcome = "order" /\ Range(result.order) = expected

\* C14: for a parent table that is a forest, the lineage of a selected label
\* s is empty when s is 0 or 1, has no row or has parent -1, and is otherwise
\* exactly the root ancestor of s with all descendants of that root; this
\* holds for the lineage the colormap uses (parent_labels) and for the one the
\* plot draws (the label/parent pairs of the plotted dataframe).
C14_LineageIsRootTree ==
    /\ ValidTable(parent_labels) =>
           \A s \in Labels :
               LineageIs(get_lineage(parent_labels, s), ExpectedLineage(parent_labels, s))
    /\ ValidTable(PlotParentLabels(label_df)) =>
           \A s \in Labels :
               LineageIs(lineage_data_order(label_df, s),
                         ExpectedLineage(PlotParentLabels(label_df), s))

\* The labels with parent 0 together with all of their descendants.
ExpectedTracked(pl) ==
    LET roots == {l \in LabelsOf(pl) : ParentOf(pl, l) = 0}
    IN  roots \cup UNION {Descendants(pl, r) : r \in roots}

Above1(S) == {l \in S : l > 1}

\* C15: whenever the parent table is a forest, the labels (> 1) highlighted in
\* display mode 'Tracked' are exactly the labels with parent 0 and all of
\* their descendants, in the colormap of the labels layer (computed from
\* parent_labels) and in the plot (computed from the label/parent pairs of the
\* plotted dataframe).
C15_TrackedSelection ==
    /\ ValidTable(parent_labels) =>
           Above1(TrackedSelection(parent_labels)) = Above1(ExpectedTracked(parent_labels))
    /\ ValidTable(PlotParentLabels(label_df)) =>
           LET r == tracked_data_order(label_df)
           IN  /\ r.outcome = "order"
               /\ Above1(Range(r.order)) = Above1(ExpectedTracked(PlotParentLabels(label_df)))

\* C16: after every completed convert, swap or paint update, parent_labels
\* holds no row for a label (> 1) that occurs nowhere in the volume; this
\* covers a convert over all frames onto a target that already has a row.
C16_NoStaleRows ==
    Completed(EditOps) =>
        \A l \in TrackedLabels(parent_labels) : Occurs(data, l, 0)

ParentsIn(df) == {df[i].parent : i \in 1 .. Len(df)}

\* Some label (> 1) of pl has parent l.
HasChild(pl, l) == \E i \in 1 .. Len(pl) : pl[i].label > 1 /\ pl[i].parent = l

\* C17: when a convert to 0 over all frames removes a label L (> 1) that
\* occurs in the volume, has a parent_labels row and is recorded as the
\* parent of another label, then afterwards no row of parent_labels or of
\* label_df has parent L: the former children of L are roots.
C17_NoDanglingParent ==
    [][(/\ last'.op = "convert"
        /\ last'.res = "done"
        /\ last'.b = 0
        /\ last'.all
        /\ last'.a > 1
        /\ last'.hit
        /\ HasLabel(parent_labels, last'.a)
        /\ HasChild(parent_labels, last'.a))
       => /\ last'.a \notin ParentsIn(parent_labels')
          /\ last'.a \notin ParentsIn(label_df')]_vars

\* C18: in every state reachable from the start of a session, neither
\* parent_labels nor label_df holds a row whose label is 0 (background) or 1
\* (the label reserved for untracked cells).
C18_OnlyTrackedLabels ==
    /\ \A l \in LabelsOf(parent_labels) : l > 1
    /\ \A l \in LabelsOf(label_df) : l > 1

\* The steps of the handler call recorded in op, started with parent table pl.
StepsOf(pl, op) ==
    IF op.op = "convert" THEN convert_label_steps(pl, op.b)
    ELSE IF op.op = "swap" THEN swap_label_steps
    ELSE update_labels_steps(op.b)

\* Every refresh of a consumer comes after every write of the call.
RefreshesLast(steps) ==
    \A i, j \in 1 .. Len(steps) :
        (steps[i].kind = "refresh" /\ steps[j].kind # "refresh") => j < i

\* The call recorded in op changed the volume for a label > 1.
EditsTrackedLabel(op) ==
    /\ op.op \in EditOps
    /\ op.res = "done"
    /\ op.hit
    /\ IF op.op = "paint" THEN op.b > 1 ELSE op.a > 1

\* C19: within every completed convert, swap and paint update, each refresh
\* pushed to the plot or to the parent table comes after the volume write,
\* the label_df update and the reconciliation of the two tables of that call.
C19_RefreshAfterReconcile ==
    [][EditsTrackedLabel(last')
       => RefreshesLast(StepsOf(parent_labels, last'))]_vars

\* C20: when a handler call for a label > 1 fails part-way (an exception
\* leaves the handler), label_df and parent_labels are what they were before
\* the call, and so is the volume unless the call is the update that follows
\* a paint stroke the viewer has already written.
C20_FailureLeavesState ==
    [][(/\ last'.res = "failed"
        /\ IF last'.op = "paint" THEN last'.b > 1 ELSE last'.a > 1)
       => /\ label_df' = label_df
          /\ parent_labels' = parent_labels
          /\ (last'.op # "paint" => data' = data)]_vars

\* C21: in every reachable state the handler that ran last has run to its
\* end, and so would a lineage selection of any label and a save: none stops
\* on the lookup of a label that has no parent_labels row.
C21_NoUnhandledFailure ==
    /\ last.res # "failed"
    /\ \A s \in Labels : get_lineage(parent_labels, s).outcome # "raises"
    /\ ~SaveRaises(parent_labels)

\* The parent a saved row of label l must carry.
SavedParent(pl, l) == IF HasLabel(pl, l) THEN ParentOf(pl, l) ELSE -1

RowsOfLabel(pl, l) == SelectSeq(pl, LAMBDA r : r.label = l)

\* label_df has a row of label l at a frame from frame from on.
HasRowFrom(df, l, from) ==
    \E i \in 1 .. Len(df) : df[i].label = l /\ df[i].time_point >= from

\* C23: a completed convert of a label (> 1) that has voxels and rows in the
\* addressed frames to another label (> 1) without a parent_labels row adds
\* exactly one row (target, 0), and every other label (> 1) that had a row
\* and still occurs in label_df keeps its row with the same parent.
C23_ConvertAddsOneRow ==
    [][(/\ last'.op = "convert"
        /\ last'.res = "done"
        /\ last'.hit
        /\ last'.a > 1
        /\ last'.b > 1
        /\ last'.a # last'.b
        /\ HasRowFrom(label_df, last'.a, From(last'.all, last'.t))
        /\ ~HasLabel(parent_labels, last'.b))
       => /\ Len(RowsOfLabel(parent_labels', last'.b)) = 1
          /\ ParentOf(parent_labels', last'.b) = 0
          /\ \A l \in Above1(LabelsOf(label_df')) \ {last'.b} :
                 HasLabel(parent_labels, l)
                 => /\ HasLabel(parent_labels', l)
                    /\ ParentOf(parent_labels', l) = ParentOf(parent_labels, l)]_vars

\* C24: in every reachable state label_df has at most one row per
\* (time_point, label) pair with label > 1, also after a convert onto a
\* target that is present in the same frames.
C24_OneRowPerFrameLabel ==
    \A i, j \in 1 .. Len(label_df) :
        (/\ label_df[i].label > 1
         /\ label_df[i].label = label_df[j].label
         /\ label_df[i].time_point = label_df[j].time_point) => i = j

\* C25: converting a label L (> 1) to 0 from the current frame T on removes
\* from label_df the rows (t, L) with t >= T and no other row, and L keeps
\* its parent_labels row whenever it had one and still occurs in a frame
\* before T.
C25_ConvertToZeroFromFrame ==
    [][(/\ last'.op = "convert"
        /\ last'.res = "done"
        /\ last'.b = 0
        /\ ~last'.all
        /\ last'.a > 1
        /\ last'.hit)
       => LET L == last'.a
              T == last'.t
          IN  /\ Keys(label_df')
                    = SelectSeq(Keys(label_df),
                                LAMBDA r : ~(r.label = L /\ r.time_point >= T))
              /\ (HasLabel(parent_labels, L) /\ Occurs(data', L, 0))
                     => HasLabel(parent_labels', L)]_vars

\* The parent the paint update leaves the selected label with (lines 494-504).
PaintedParent(pl, L) ==
    IF ~HasLabel(pl, L) \/ ParentOf(pl, L) = -1 THEN 0 ELSE ParentOf(pl, L)

C27_PaintReplacesFrame ==
    [][(/\ last'.op = "paint"
        /\ nops' = nops + 1
        /\ last.op \in {"convert", "swap"} => last.a > 1) =>
        LET t    == last'.t
            rows == SelectSeq(label_df', LAMBDA r : r.time_point = t)
        IN  /\ RowsAt(label_df', t) = {l \in VolumeLabelsAt(data', t) : l > 1}
            /\ Len(rows) = Cardinality(RowsAt(label_df', t))
            /\ \A u \in Frames \ {t} : RowsAt(label_df', u) = RowsAt(label_df, u)]_vars

\* Every member of a non-empty lineage of s has the lineage of s, and s is
\* a member; lineage(pl, s) is the result record of a lineage computation.
MemberIndependent(pl, lineage(_, _)) ==
    \A s \in Labels :
        LET ls == lineage(pl, s) IN
        (ls.outcome = "order" /\ ls.order # <<>>) =>
            /\ s \in Range(ls.order)
            /\ \A y \in Range(ls.order) :
                   /\ lineage(pl, y).outcome = "order"
                   /\ Range(lineage(pl, y).order) = Range(ls.order)

\* No row is about the reserved label 1 or names it as a parent.
TrackedOnly(pl) == \A i \in 1 .. Len(pl) : pl[i].label > 1 /\ pl[i].parent # 1

\* C30: whenever the parent table is a forest over labels greater than 1,
\* the lineage selection is the same for every member of a lineage: each
\* label y of a non-empty lineage(s) has lineage(y) = lineage(s), and s
\* belongs to lineage(s); for the lineage of the colormap and for the one of
\* the plot.
C30_LineageMemberIndependent ==
    /\ (ValidTable(parent_labels) /\ TrackedOnly(parent_labels))
           => MemberIndependent(parent_labels, get_lineage)
    /\ (ValidTable(PlotParentLabels(label_df)) /\ TrackedOnly(PlotParentLabels(label_df)))
           => MemberIndependent(label_df, lineage_data_order)

\* C28: after every mode-cycle key press and after every colormap update
\* that came to an end, _update_cmap is subscribed to the selected_label
\* event exactly when the display mode is 'Lineage', and a key press moves
\* the mode one step along All, Tracked, Lineage, Non-connected cells, All.
C28_ModeCycleSubscription ==
    [][(/\ \/ last'.op = "cycle"
           \/ last'.op = "select" /\ last'.hit
        /\ last'.res \in {"done", "failed"}) =>
        /\ subscribed' <=> (Mode(colormap_selection_index') = "Lineage")
        /\ last'.op = "cycle" =>
               colormap_selection_index'
                   = (colormap_selection_index + 1) % Len(colormap_options)]_vars

\* The lists of distinct labels out of S.
DistinctLists(S) ==
    {q \in UNION {[1 .. n -> S] : n \in 0 .. Cardinality(S)} :
        \A i, j \in 1 .. Len(q) : q[i] = q[j] => i = j}

\* No label of the list descends from another label of the list.
Unrelated(pl, starts) ==
    \A i, j \in 1 .. Len(starts) : ~IsDescendant(pl, starts[i], starts[j], Len(pl))

\* The tree order from starts ends and holds every start and every
\* descendant of a start once, and nothing else.
CoversOnce(pl, starts) ==
    LET r == determine_label_plot_order(pl, starts)
        expected == Range(starts) \cup UNION {Descendants(pl, starts[i]) : i \in 1 .. Len(starts)}
    IN  /\ r.ended
        /\ Range(r.order) = expected
        /\ Len(r.order) = Cardinality(expected)

\* C29: for every parent table that is a forest with one row per label and
\* every list of distinct starting labels none of which descends from
\* another, the tree order contains each starting label and each of their
\* descendants exactly once and no other label; for the table of the tracker
\* and for the label/parent pairs the plot reads.
C29_TreeOrderCoversOnce ==
    /\ IsForest(parent_labels) =>
           \A starts \in DistinctLists(Labels \ {0}) :
               Unrelated(parent_labels, starts) => CoversOnce(parent_labels, starts)
    /\ IsForest(PlotParentLabels(label_df)) =>
           \A starts \in DistinctLists(Labels \ {0}) :
               Unrelated(PlotParentLabels(label_df), starts)
                   => CoversOnce(PlotParentLabels(label_df), starts)

\* Two parent cells were typed: a label above 1 with parent 0 has a child
\* above 1, and the order from that root holds both.
C29_Witness ==
    /\ Completed({"edit"})
    /\ IsForest(parent_labels)
    /\ \E r, c \in TrackedLabels(parent_labels) :
          /\ ParentOf(parent_labels, r) = 0
          /\ ParentOf(parent_labels, c) = r
          /\ Len(determine_label_plot_order(parent_labels, <<r>>).order) = 2

====
